---- MODULE Spec2Model ----
(***************************************************************************)
(* Model of examples/code/ace_agent.py: the ACEAgent object, its three     *)
(* phases (generator_phase, reflector_phase, curator_phase), the full      *)
(* cycle process_task, the playbook read get_context_playbook and the      *)
(* scoring function TradeoffAnalysis.score.                                *)
(*                                                                         *)
(* Strings to which the code applies str.lower() are sequences of          *)
(* characters; every other string is opaque.  A value that may be None is  *)
(* a sequence of length at most one.                                       *)
(***************************************************************************)
EXTENDS Integers, Sequences, FiniteSets, TLC

VARIABLES
    context_playbook,  \* self.context_playbook
    current_phase,     \* self.current_phase ("none" for None)
    solutions,         \* self.solutions
    analyses,          \* self.analyses
    recommendation,    \* self.recommendation (<<>> for None)
    pc,                \* position of the running process_task call
    call,              \* the method call that ran last and its arguments
    raised,            \* exception that call ended with ("none" if it returned)
    returned,          \* what call returned, by type; Nothing if it raised
    pending,           \* SpecInputs: the drawn input a caller holds
    applied            \* SpecInputs: how often the input has been applied

vars == <<context_playbook, current_phase, solutions, analyses,
          recommendation, pc, call, raised, returned, pending, applied>>

agentVars == <<context_playbook, current_phase, solutions, analyses,
               recommendation>>

-----------------------------------------------------------------------------
(* Bounds *)

MaxPairs == 3
MaxInitLen == 1
MaxApply == 2

-----------------------------------------------------------------------------
(* Strings and str.lower() *)

UpperChars ==
    <<"A","B","C","D","E","F","G","H","I","J","K","L","M",
      "N","O","P","Q","R","S","T","U","V","W","X","Y","Z">>

LowerChars ==
    <<"a","b","c","d","e","f","g","h","i","j","k","l","m",
      "n","o","p","q","r","s","t","u","v","w","x","y","z">>

\* the cased letters and their lower-case forms
ToLower ==
    [c \in {UpperChars[i] : i \in DOMAIN UpperChars} |->
        LowerChars[CHOOSE i \in DOMAIN UpperChars : UpperChars[i] = c]]

LowerChar(c) == IF c \in DOMAIN ToLower THEN ToLower[c] ELSE c

Lower(s) == [i \in DOMAIN s |-> LowerChar(s[i])]

High == <<"H","i","g","h">>
Medium == <<"M","e","d","i","u","m">>
Low == <<"L","o","w">>

-----------------------------------------------------------------------------
(* TradeoffAnalysis.score *)

\* score_map.get(key, default) with score_map = {"high": 3, "medium": 2, "low": 1}
ScoreMapLookup(s, default) ==
    IF s = <<"h","i","g","h">> THEN 3
    ELSE IF s = <<"m","e","d","i","u","m">> THEN 2
    ELSE IF s = <<"l","o","w">> THEN 1
    ELSE default

ScoreMapGetNoLower(s, default) == ScoreMapLookup(s, default)

\* score_map.get(s.lower(), default)
ScoreMapGet(s, default) == ScoreMapLookup(Lower(s), default)

ScoreCostDefaultZero(a) ==
    ScoreMapGet(a.performance, 0) + ScoreMapGet(a.maintainability, 0)
    + ScoreMapGet(a.security, 0) + (4 - ScoreMapGet(a.cost, 0))

Score(a) ==
    ScoreMapGet(a.performance, 0) + ScoreMapGet(a.maintainability, 0)
    + ScoreMapGet(a.security, 0) + (4 - ScoreMapGet(a.cost, 2))

-----------------------------------------------------------------------------
(* Dataclasses *)

Solution(n, d, steps, assume) ==
    [name |-> n, description |-> d, implementation_steps |-> steps,
     assumptions |-> assume]

TradeoffAnalysis(n, p, m, s, c, r) ==
    [solution_name |-> n, performance |-> p, maintainability |-> m,
     security |-> s, cost |-> c, risks |-> r]

CuratedRecommendation(p, r, a, g, l) ==
    [primary_choice |-> p, rationale |-> r, alternative |-> a,
     implementation_guidance |-> g, patterns_learned |-> l]

Phase == {"generator", "reflector", "curator"}

\* the literal playbook ACEAgent.__init__ falls back to
DefaultPlaybook ==
    [successful_patterns |-> <<>>, common_pitfalls |-> <<>>,
     domain_knowledge |-> <<>>]

\* the literal list generator_phase assigns to self.solutions
GeneratedSolutions ==
    << Solution("Solution A - Simple In-Memory Queue",
                "Use Python's built-in queue.Queue with threading",
                <<"Import queue and threading modules",
                  "Create a Queue instance",
                  "Start worker threads that consume from queue",
                  "Add tasks via queue.put()">>,
                <<"Single server deployment",
                  "Tasks complete quickly (< 1 minute)",
                  "OK to lose tasks on restart">>),
       Solution("Solution B - Redis-backed Queue",
                "Use Redis with a worker pool for persistence",
                <<"Set up Redis server",
                  "Use rq (Redis Queue) library",
                  "Define task functions with @job decorator",
                  "Start worker processes">>,
                <<"Redis infrastructure available",
                  "Need task persistence",
                  "Multiple workers possible">>),
       Solution("Solution C - Cloud Queue Service",
                "Use AWS SQS or Google Cloud Tasks",
                <<"Configure cloud provider credentials",
                  "Create queue in cloud console",
                  "Use SDK to send/receive messages",
                  "Deploy workers as serverless functions">>,
                <<"Cloud budget available",
                  "Need high scalability",
                  "OK with vendor lock-in">>) >>

\* the literal list reflector_phase assigns to self.analyses
ReflectedAnalyses ==
    << TradeoffAnalysis("Solution A", High, Medium, Medium, Low,
                        <<"Tasks lost on server restart",
                          "No built-in retry mechanism",
                          "Difficult to scale horizontally">>),
       TradeoffAnalysis("Solution B", High, High, High, Medium,
                        <<"Redis becomes single point of failure",
                          "Need to manage Redis infrastructure",
                          "Network latency to Redis">>),
       TradeoffAnalysis("Solution C", Medium, High, High, High,
                        <<"Vendor lock-in",
                          "Cold start latency for serverless",
                          "Cost can spike with high volume">>) >>

\* the literal patterns_learned list of curator_phase
PatternsLearned ==
    <<"Simple solutions often best for MVP",
      "Consider operational complexity in trade-offs",
      "Start simple, migrate to complex as needed">>

-----------------------------------------------------------------------------
(* curator_phase, as a function of its arguments and the playbook *)

Min(a, b) == IF a <= b THEN a ELSE b

\* zip(solutions, analyses): stops at the shorter list
Zip(sols, ans) ==
    [i \in 1..Min(Len(sols), Len(ans)) |-> <<sols[i], ans[i]>>]

RECURSIVE InsertRankedUnstable(_, _)
InsertRankedUnstable(ranked, x) ==
    IF ranked = <<>> THEN <<x>>
    ELSE IF Score(Head(ranked)[2]) > Score(x[2])
         THEN <<Head(ranked)>> \o InsertRankedUnstable(Tail(ranked), x)
         ELSE <<x>> \o ranked

\* one insertion of the stable descending sort: x goes behind every pair
\* whose score is at least its own
RECURSIVE InsertRanked(_, _)
InsertRanked(ranked, x) ==
    IF ranked = <<>> THEN <<x>>
    ELSE IF Score(Head(ranked)[2]) >= Score(x[2])
         THEN <<Head(ranked)>> \o InsertRanked(Tail(ranked), x)
         ELSE <<x>> \o ranked

\* sorted(pairs, key=lambda x: x[1].score(), reverse=True)
RECURSIVE Ranked(_)
Ranked(pairs) ==
    IF pairs = <<>> THEN <<>>
    ELSE InsertRanked(Ranked(SubSeq(pairs, 1, Len(pairs) - 1)),
                      pairs[Len(pairs)])

InSeq(x, s) == \E i \in DOMAIN s : s[i] = x

RecordPatternAlways(patterns, pattern) == Append(patterns, pattern)

RecordPatternFront(patterns, pattern) ==
    IF InSeq(pattern, patterns) THEN patterns ELSE <<pattern>> \o patterns

\* if pattern not in successful_patterns: successful_patterns.append(pattern)
RecordPattern(patterns, pattern) ==
    IF InSeq(pattern, patterns) THEN patterns ELSE Append(patterns, pattern)

RECURSIVE FoldPatternsReversed(_, _)
FoldPatternsReversed(patterns, learned) ==
    IF learned = <<>> THEN patterns
    ELSE FoldPatternsReversed(RecordPattern(patterns, learned[Len(learned)]),
                              SubSeq(learned, 1, Len(learned) - 1))

\* for pattern in self.recommendation.patterns_learned: record it
RECURSIVE FoldPatterns(_, _)
FoldPatterns(patterns, learned) ==
    IF learned = <<>> THEN patterns
    ELSE FoldPatterns(RecordPattern(patterns, Head(learned)), Tail(learned))

WithPatterns(playbook, learned) ==
    [playbook EXCEPT !.successful_patterns = FoldPatterns(@, learned)]

\* the CuratedRecommendation(...) expression; callers guarantee two ranked
\* pairs, a first implementation step and a first risk
BuildRecommendation(ranked) ==
    CuratedRecommendation(
        ranked[1][1].name,
        <<Lower(ranked[1][2].performance), Lower(ranked[1][2].maintainability),
          Lower(ranked[1][2].cost)>>,
        <<ranked[2][1].name, Lower(ranked[2][2].security)>>,
        << <<"Start with: ", ranked[1][1].implementation_steps[1]>>,
           <<"Monitor for: ", "Task processing latency, queue depth">>,
           <<"Pivot if: ", ranked[1][2].risks[1]>> >>,
        PatternsLearned)

\* ranked[0], ranked[1], implementation_steps[0] or risks[0] is out of range
CuratorRaises(ranked) ==
    \/ Len(ranked) < 2
    \/ ranked[1][1].implementation_steps = <<>>
    \/ ranked[1][2].risks = <<>>

OutcomeOfEagerWrite(ranked, playbook) ==
    IF CuratorRaises(ranked)
    THEN [raised |-> "IndexError", recommendation |-> <<>>,
          playbook |-> WithPatterns(playbook, PatternsLearned)]
    ELSE [raised |-> "none",
          recommendation |-> <<BuildRecommendation(ranked)>>,
          playbook |-> WithPatterns(playbook, PatternsLearned)]

\* what curator_phase does with the ranked pairs: the exception it raises,
\* the recommendation it builds, the playbook it leaves
OutcomeOf(ranked, playbook) ==
    IF CuratorRaises(ranked)
    THEN [raised |-> "IndexError", recommendation |-> <<>>,
          playbook |-> playbook]
    ELSE [raised |-> "none",
          recommendation |-> <<BuildRecommendation(ranked)>>,
          playbook |-> WithPatterns(playbook, PatternsLearned)]

\* curator_phase as a function of its arguments and the playbook; the
\* ranking is computed once
CuratorOutcome(sols, ans, playbook) ==
    CHOOSE out \in {OutcomeOf(ranked, playbook) :
                        ranked \in {Ranked(Zip(sols, ans))}} : TRUE

-----------------------------------------------------------------------------
(* Inputs *)

RECURSIVE SeqsUpTo(_, _)
SeqsUpTo(S, n) ==
    IF n = 0 THEN {<<>>}
    ELSE LET shorter == SeqsUpTo(S, n - 1) IN
         shorter \cup {Append(s, x) : s \in shorter, x \in S}

Problems ==
    {"Design a task queue system for a web application that processes user uploads"}

OtherPattern == "Prefer managed services"

\* entries a supplied playbook may already hold
PatternPool == {PatternsLearned[1], PatternsLearned[2], OtherPattern}

\* playbooks a caller may hand to ACEAgent(context_playbook)
SuppliedPlaybooks ==
    {[successful_patterns |-> sp, common_pitfalls |-> <<"Unbounded retries">>,
      domain_knowledge |-> <<"Uploads are bursty">>] :
        sp \in SeqsUpTo(PatternPool, MaxInitLen)}

SolNoSteps == Solution("Solution D - Undecided", "To be designed", <<>>, <<>>)

AnNoRisk == TradeoffAnalysis("Solution D", High, High, High, Medium, <<>>)

AnTie == TradeoffAnalysis("Solution E", Medium, High, Medium, Low,
                          <<"Unknown operational cost">>)

\* lists of up to MaxPairs elements: first, then rest repeated
ListsOf(firsts, rest) ==
    {[i \in 1..n |-> IF i = 1 THEN first ELSE rest] :
        first \in firsts, n \in 0..MaxPairs}

\* arguments of the direct phase calls
CallSolutions == ListsOf({GeneratedSolutions[2], SolNoSteps}, GeneratedSolutions[2])

CallAnalyses == ListsOf({ReflectedAnalyses[2], AnNoRisk}, ReflectedAnalyses[2])

\* arguments drawn for the ranking: the generated solutions, every list of
\* analyses
RankSolutions ==
    LET pool == GeneratedSolutions \o <<SolNoSteps>> IN
    {SubSeq(pool, 1, Min(n, Len(pool))) : n \in 0..MaxPairs}

RankAnalyses ==
    SeqsUpTo({ReflectedAnalyses[i] : i \in 1..3} \cup {AnTie, AnNoRisk}, MaxPairs)

\* spellings of the three levels, and strings that are none of them
HighForms == {High, <<"H","I","G","H">>, <<"h","i","g","h">>}

MediumForms == {Medium, <<"m","E","d","I","u","M">>, <<"m","e","d","i","u","m">>}

LowForms == {Low, <<"L","O","W">>, <<"l","o","w">>}

Unrecognized == {<<"N","/","A">>, <<"H","i","g","h","e","r">>, <<>>}

Recognized == HighForms \cup MediumForms \cup LowForms

Qualitatives == Recognized \cup Unrecognized

ScoreAnalyses ==
    {TradeoffAnalysis("Solution X", p, m, s, c, <<"Unknown operational cost">>) :
        p \in Qualitatives, m \in Qualitatives, s \in Qualitatives,
        c \in Qualitatives}

\* a method call: its name and its arguments ("" and <<>> where it has none)
Call(op, problem, sols, ans) ==
    [op |-> op, problem |-> problem, solutions |-> sols, analyses |-> ans]

NoCall == Call("none", "", <<>>, <<>>)

\* what a call returned, by the type of the value; a call that raised
\* returned nothing
Nothing ==
    [solutions |-> <<>>, analyses |-> <<>>, recommendation |-> <<>>,
     playbook |-> <<>>, score |-> <<>>]

-----------------------------------------------------------------------------
(* The methods of ACEAgent *)

\* ACEAgent(context_playbook): the default playbook or the supplied one
AgentInit ==
    /\ context_playbook \in {DefaultPlaybook} \cup SuppliedPlaybooks
    /\ current_phase = "none"
    /\ solutions = <<>>
    /\ analyses = <<>>
    /\ recommendation = <<>>
    /\ pc = "Idle"
    /\ call = NoCall
    /\ raised = "none"
    /\ returned = Nothing

generator_phase(problem) ==
    /\ current_phase' = "generator"
    /\ solutions' = GeneratedSolutions
    /\ call' = Call("generator_phase", problem, <<>>, <<>>)
    /\ raised' = "none"
    /\ returned' = [Nothing EXCEPT !.solutions = GeneratedSolutions]
    /\ UNCHANGED <<context_playbook, analyses, recommendation>>

reflector_phase(sols) ==
    /\ current_phase' = "reflector"
    /\ analyses' = ReflectedAnalyses
    /\ call' = Call("reflector_phase", "", sols, <<>>)
    /\ raised' = "none"
    /\ returned' = [Nothing EXCEPT !.analyses = ReflectedAnalyses]
    /\ UNCHANGED <<context_playbook, solutions, recommendation>>

curator_phase(sols, ans) ==
    \E out \in {CuratorOutcome(sols, ans, context_playbook)} :
    /\ current_phase' = "curator"
    /\ recommendation' =
          IF out.raised = "none" THEN out.recommendation ELSE recommendation
    /\ context_playbook' = out.playbook
    /\ call' = Call("curator_phase", "", sols, ans)
    /\ raised' = out.raised
    /\ returned' = [Nothing EXCEPT !.recommendation = out.recommendation]
    /\ UNCHANGED <<solutions, analyses>>

get_context_playbook ==
    /\ call' = Call("get_context_playbook", "", <<>>, <<>>)
    /\ raised' = "none"
    /\ returned' = [Nothing EXCEPT !.playbook = <<context_playbook>>]
    /\ UNCHANGED agentVars

score(a) ==
    /\ call' = Call("score", "", <<>>, <<a>>)
    /\ raised' = "none"
    /\ returned' = [Nothing EXCEPT !.score = <<Score(a)>>]
    /\ UNCHANGED agentVars

-----------------------------------------------------------------------------
(* Spec: one agent, called from a single thread *)

NoCycleRunning == pc \in {"Idle", "Done", "Aborted"}

Init ==
    /\ AgentInit
    /\ pending = NoCall
    /\ applied = 0

GeneratorPhase ==
    /\ NoCycleRunning
    /\ \E problem \in Problems : generator_phase(problem)
    /\ UNCHANGED <<pc, pending, applied>>

ReflectorPhase ==
    /\ NoCycleRunning
    /\ \E sols \in CallSolutions : reflector_phase(sols)
    /\ UNCHANGED <<pc, pending, applied>>

CuratorPhase ==
    /\ NoCycleRunning
    /\ \E sols \in CallSolutions, ans \in CallAnalyses : curator_phase(sols, ans)
    /\ UNCHANGED <<pc, pending, applied>>

GetContextPlaybook ==
    /\ NoCycleRunning
    /\ get_context_playbook
    /\ UNCHANGED <<pc, pending, applied>>

\* process_task: solutions = self.generator_phase(problem)
ProcessTaskGenerate ==
    /\ NoCycleRunning
    /\ \E problem \in Problems : generator_phase(problem)
    /\ pc' = "Generate"
    /\ UNCHANGED <<pending, applied>>

ProcessTaskReflectSkipped ==
    /\ pc = "Generate"
    /\ curator_phase(returned.solutions, ReflectedAnalyses)
    /\ pc' = "Curate"
    /\ UNCHANGED <<pending, applied>>

\* process_task: analyses = self.reflector_phase(solutions)
ProcessTaskReflect ==
    /\ pc = "Generate"
    /\ reflector_phase(returned.solutions)
    /\ pc' = "Reflect"
    /\ UNCHANGED <<pending, applied>>

\* process_task: recommendation = self.curator_phase(solutions, analyses)
ProcessTaskCurate ==
    /\ pc = "Reflect"
    /\ curator_phase(call.solutions, returned.analyses)
    /\ pc' = IF raised' = "none" THEN "Curate" ELSE "Aborted"
    /\ UNCHANGED <<pending, applied>>

\* process_task: return recommendation
ProcessTaskReturn ==
    /\ pc = "Curate"
    /\ pc' = "Done"
    /\ call' = Call("process_task", "", <<>>, <<>>)
    /\ raised' = "none"
    /\ returned' = returned
    /\ UNCHANGED <<agentVars, pending, applied>>

Next ==
    \/ GeneratorPhase
    \/ ReflectorPhase
    \/ CuratorPhase
    \/ GetContextPlaybook
    \/ ProcessTaskGenerate
    \/ ProcessTaskReflect
    \/ ProcessTaskCurate
    \/ ProcessTaskReturn

Spec == Init /\ [][Next]_vars

\* process_task is synchronous: once entered it runs each statement in turn
CycleRuns == ProcessTaskReflect \/ ProcessTaskCurate \/ ProcessTaskReturn

LiveSpec == Spec /\ WF_vars(CycleRuns)

-----------------------------------------------------------------------------
(* SpecInputs: a freshly constructed agent and one drawn input, to which   *)
(* score() or curator_phase() is applied up to MaxApply times              *)

InitInputs ==
    /\ AgentInit
    /\ context_playbook = DefaultPlaybook
    /\ applied = 0
    /\ pending \in
         {Call("score", "", <<>>, <<a>>) : a \in ScoreAnalyses}
         \cup {Call("curator_phase", "", sols, ans) :
                  sols \in RankSolutions, ans \in RankAnalyses}

ApplyScore ==
    /\ pending.op = "score"
    /\ applied < MaxApply
    /\ score(pending.analyses[1])
    /\ applied' = applied + 1
    /\ UNCHANGED <<pc, pending>>

ApplyCurator ==
    /\ pending.op = "curator_phase"
    /\ applied < MaxApply
    /\ curator_phase(pending.solutions, pending.analyses)
    /\ applied' = applied + 1
    /\ UNCHANGED <<pc, pending>>

NextInputs == ApplyScore \/ ApplyCurator

SpecInputs == InitInputs /\ [][NextInputs]_vars

TypeOK ==
    /\ current_phase \in Phase \cup {"none"}
    /\ pc \in {"Idle", "Generate", "Reflect", "Curate", "Done", "Aborted"}
    /\ raised \in {"none", "IndexError"}
    /\ Len(recommendation) <= 1
    /\ Len(returned.recommendation) <= 1
    /\ raised # "none" => returned = Nothing
    /\ applied \in 0..MaxApply

-----------------------------------------------------------------------------
(* Vocabulary of the properties *)

CuratorCalled == call.op = "curator_phase"

CuratorReturned ==
    CuratorCalled /\ raised = "none" /\ Len(returned.recommendation) = 1

\* the (solution, analysis) pairs the last curator_phase call was given
GivenPairs == Zip(call.solutions, call.analyses)

ScoreOf(pairs, i) == Score(pairs[i][2])

\* j is ranked behind i: lower score, or the same score and generated later
Behind(pairs, j, i) ==
    \/ ScoreOf(pairs, j) < ScoreOf(pairs, i)
    \/ ScoreOf(pairs, j) = ScoreOf(pairs, i) /\ j > i

\* High=3, Medium=2, Low=1 in any letter case, other strings as given
MapLevel(q, other) ==
    IF q \in HighForms THEN 3
    ELSE IF q \in MediumForms THEN 2
    ELSE IF q \in LowForms THEN 1
    ELSE other

ValidAnalysis(a) ==
    /\ a.performance \in Recognized
    /\ a.maintainability \in Recognized
    /\ a.security \in Recognized
    /\ a.cost \in Recognized

Patterns(playbook) == playbook.successful_patterns

NoDuplicates(s) == \A i, j \in DOMAIN s : s[i] = s[j] => i = j

IsPrefix(s, t) == Len(s) <= Len(t) /\ SubSeq(t, 1, Len(s)) = s

FirstIndex(x, s) == CHOOSE i \in DOMAIN s : s[i] = x /\ \A j \in 1..(i - 1) : s[j] # x

\* the entries of learned occur in s, in the relative order they have in learned
InOrder(learned, s) ==
    /\ \A i \in DOMAIN learned : InSeq(learned[i], s)
    /\ \A i, j \in DOMAIN learned :
          i < j => FirstIndex(learned[i], s) < FirstIndex(learned[j], s)

CycleDone ==
    pc = "Done" /\ call.op = "process_task" /\ Len(returned.recommendation) = 1

-----------------------------------------------------------------------------
(* C1 *)

\* C1: when curator_phase returns, primary_choice is the name of the pair
\* with the highest score, the earliest generated one among equals, and
\* alternative names the pair that comes first among the remaining ones in
\* the same descending, generation-order-stable ranking.
C1_RankingIsStableDescending ==
    CuratorReturned =>
        \E i, k \in DOMAIN GivenPairs :
            /\ i # k
            /\ \A j \in DOMAIN GivenPairs \ {i} : Behind(GivenPairs, j, i)
            /\ \A j \in DOMAIN GivenPairs \ {i, k} : Behind(GivenPairs, j, k)
            /\ returned.recommendation[1].primary_choice = GivenPairs[i][1].name
            /\ returned.recommendation[1].alternative[1] = GivenPairs[k][1].name

\* a returned ranking of three pairs whose two best pairs tie and carry
\* different names
C1_Witness ==
    /\ CuratorReturned
    /\ Len(GivenPairs) = 3
    /\ \E i, k \in DOMAIN GivenPairs :
          /\ i < k
          /\ ScoreOf(GivenPairs, i) = ScoreOf(GivenPairs, k)
          /\ \A j \in DOMAIN GivenPairs : ScoreOf(GivenPairs, j) <= ScoreOf(GivenPairs, i)
          /\ GivenPairs[i][1].name # GivenPairs[k][1].name
          /\ returned.recommendation[1].primary_choice = GivenPairs[i][1].name

-----------------------------------------------------------------------------
(* C2 *)

C2_ScoreValue ==
    (call.op = "score" /\ ValidAnalysis(call.analyses[1])) =>
        LET a == call.analyses[1] IN
        /\ raised = "none"
        /\ returned.score[1] = MapLevel(a.performance, 0) + MapLevel(a.maintainability, 0)
                         + MapLevel(a.security, 0) + (4 - MapLevel(a.cost, 0))
        /\ returned.score[1] \in 4..12
        /\ (a.performance = High /\ a.maintainability = Medium
            /\ a.security = Medium /\ a.cost = Low) => returned.score[1] = 10

C2_ScoreStep ==
    (call'.op = "score" /\ applied' # applied) =>
        /\ UNCHANGED agentVars
        /\ (call.op = "score" /\ call.analyses = call'.analyses) => returned' = returned

\* C2: for an analysis whose four fields are High/Medium/Low in any letter
\* case, score() is map(performance) + map(maintainability) + map(security)
\* + (4 - map(cost)), an integer in 4..12 (10 for High, Medium, Medium, Low);
\* a score() call changes no state of the agent and a second call on the
\* same analysis returns the same value.
C2_ScoreOfValidAnalysis == []C2_ScoreValue /\ [][C2_ScoreStep]_vars

\* score() has been called a second time on an analysis written in mixed
\* case, and on the spec's example analysis
C2_Witness ==
    /\ call.op = "score"
    /\ applied = 2
    /\ ValidAnalysis(call.analyses[1])
    /\ call.analyses[1].performance = <<"H","I","G","H">>
    /\ call.analyses[1].cost = <<"m","E","d","I","u","M">>
    /\ returned.score[1] = 3 + 1 + 1 + 2

-----------------------------------------------------------------------------
(* C3 *)

\* C3 as stated: an unrecognized string maps to 0 in all four fields, so an
\* unrecognized cost contributes 4 - 0 = 4.
C3_UnrecognizedCostCountsFour ==
    call.op = "score" =>
        LET a == call.analyses[1] IN
        /\ raised = "none"
        /\ returned.score[1] = MapLevel(a.performance, 0) + MapLevel(a.maintainability, 0)
                         + MapLevel(a.security, 0) + (4 - MapLevel(a.cost, 0))

\* C3 amended: an unrecognized performance, maintainability or security
\* string maps to 0 and contributes 0; an unrecognized cost string maps to
\* 2 (as Medium does) and contributes 4 - 2 = 2; score() never fails.
C3_UnrecognizedCostCountsTwo ==
    call.op = "score" =>
        LET a == call.analyses[1]
            part(q) == IF q \in Unrecognized THEN 0 ELSE MapLevel(q, 0)
            costPart == IF a.cost \in Unrecognized THEN 2 ELSE 4 - MapLevel(a.cost, 0)
        IN
        /\ raised = "none"
        /\ returned.score[1] = part(a.performance) + part(a.maintainability)
                         + part(a.security) + costPart

\* score() has run on an analysis whose cost and performance are both
\* unrecognized
C3_Witness ==
    /\ call.op = "score"
    /\ call.analyses[1].cost \in Unrecognized
    /\ call.analyses[1].performance \in Unrecognized
    /\ call.analyses[1].maintainability \in HighForms
    /\ call.analyses[1].security \in LowForms
    /\ returned.score = <<0 + 3 + 1 + 2>>

-----------------------------------------------------------------------------
(* C4 *)

C4_RecordOnce ==
    \A p \in PatternPool :
        LET sp == Patterns(context_playbook) IN
        /\ InSeq(p, sp) => RecordPattern(sp, p) = sp
        /\ ~InSeq(p, sp) => RecordPattern(sp, p) = Append(sp, p)
        /\ RecordPattern(RecordPattern(sp, p), p) = RecordPattern(sp, p)

C4_StaysDuplicateFree ==
    NoDuplicates(Patterns(context_playbook))
        => NoDuplicates(Patterns(context_playbook'))

\* C4: recording a pattern appends it to the end of successful_patterns if
\* and only if no entry equals it and otherwise leaves the list as it is,
\* so recording it twice gives the list of recording it once; a playbook
\* without duplicates has none after any step of any cycle.
C4_RecordPatternDeduplicates == []C4_RecordOnce /\ [][C4_StaysDuplicateFree]_vars

\* a curate phase has run on a playbook that already held the second
\* pattern: the other two were appended behind it, the second was not
C4_Witness ==
    /\ CuratorReturned
    /\ Patterns(context_playbook)
         = <<PatternsLearned[2], PatternsLearned[1], PatternsLearned[3]>>

-----------------------------------------------------------------------------
(* C5 *)

PhaseAt(p) ==
    CASE p = "Generate" -> "generator"
      [] p = "Reflect" -> "reflector"
      [] p = "Curate" -> "curator"
      [] OTHER -> "none"

C5_LinearStep ==
    pc' # pc =>
        /\ <<pc, pc'>> \in {<<"Idle", "Generate">>, <<"Done", "Generate">>,
                           <<"Generate", "Reflect">>, <<"Reflect", "Curate">>,
                           <<"Curate", "Done">>}
        /\ pc' # "Done" => current_phase' = PhaseAt(pc')
        /\ pc' = "Done" => current_phase' = "curator"

C5_PhaseMatches ==
    pc \in {"Generate", "Reflect", "Curate"} => current_phase = PhaseAt(pc)

\* C5: a process_task cycle moves Generate -> Reflect -> Curate -> Done and
\* along no other path; while it is in one of the three phases current_phase
\* is that phase, each phase is one completed step, and every started cycle
\* ends in Done (process_task has returned).
C5_CycleIsLinear ==
    /\ [][C5_LinearStep]_vars
    /\ []C5_PhaseMatches
    /\ (pc = "Generate") ~> (pc = "Done")

\* a cycle has run to its end and left its recommendation
C5_Witness ==
    /\ CycleDone
    /\ current_phase = "curator"
    /\ solutions = GeneratedSolutions
    /\ analyses = ReflectedAnalyses
    /\ recommendation = returned.recommendation

-----------------------------------------------------------------------------
(* C6 *)

C6_FailedCurateStep ==
    (call'.op = "curator_phase" /\ raised' # "none") =>
        /\ context_playbook' = context_playbook
        /\ returned' = Nothing

C6_AbortedCycleStep ==
    pc' = "Aborted" => context_playbook' = context_playbook

\* C6: when an error aborts the curate phase or a cycle, the playbook is
\* exactly as it was before: none of the patterns has been appended.
C6_ErrorLeavesPlaybook == [][C6_FailedCurateStep /\ C6_AbortedCycleStep]_vars

\* a curate phase given two aligned pairs has failed on the top solution's
\* missing first step, with a playbook that lacks every learned pattern
C6_Witness ==
    /\ CuratorCalled
    /\ raised = "IndexError"
    /\ Len(GivenPairs) >= 2
    /\ Len(call.solutions) = Len(call.analyses)
    /\ \A i \in DOMAIN PatternsLearned :
          ~InSeq(PatternsLearned[i], Patterns(context_playbook))

-----------------------------------------------------------------------------
(* C7 *)

\* C7: the Reflect phase returns one analysis per solution it was given,
\* and a curate phase given lists of different lengths fails with a
\* misaligned-analysis error and recommends nothing.
C7_AnalysesAlignedOrRejected ==
    /\ call.op = "reflector_phase" => Len(returned.analyses) = Len(call.solutions)
    /\ (CuratorCalled /\ Len(call.solutions) # Len(call.analyses)) =>
          /\ raised = "MisalignedAnalysisError"
          /\ returned = Nothing

-----------------------------------------------------------------------------
(* C8 *)

\* C8: a curate phase given fewer than two pairs fails with an explicit
\* insufficient-candidates error and returns no recommendation.
C8_FewerThanTwoIsInsufficientCandidates ==
    (CuratorCalled /\ Len(GivenPairs) < 2) =>
        /\ raised = "InsufficientCandidatesError"
        /\ returned = Nothing

-----------------------------------------------------------------------------
(* C9 *)

\* C9 as stated: after a successful cycle every entry of patterns_learned
\* is in successful_patterns and the entries stand there in the relative
\* order of patterns_learned, whatever the starting playbook.
C9_LearnedInOrder ==
    CycleDone => InOrder(returned.recommendation[1].patterns_learned, Patterns(context_playbook))

C9_AllPresent ==
    CycleDone =>
        \A i \in DOMAIN returned.recommendation[1].patterns_learned :
            InSeq(returned.recommendation[1].patterns_learned[i], Patterns(context_playbook))

C9_CurateStepOfCycle ==
    (pc = "Reflect" /\ pc' = "Curate") =>
        LET before == Patterns(context_playbook)
            Fresh(p) == ~InSeq(p, before)
        IN Patterns(context_playbook')
              = before \o SelectSeq(returned'.recommendation[1].patterns_learned, Fresh)

\* C9 amended: after a successful cycle every entry of patterns_learned is
\* in successful_patterns; the entries the playbook did not hold before the
\* cycle are appended behind the existing ones in the relative order of
\* patterns_learned, and an entry it already held keeps its place.
C9_LearnedPresentNewOnesInOrder ==
    []C9_AllPresent /\ [][C9_CurateStepOfCycle]_vars

\* a cycle has ended on a playbook that started with the second pattern
C9_Witness ==
    /\ CycleDone
    /\ returned.recommendation[1].patterns_learned = PatternsLearned
    /\ Patterns(context_playbook)
         = <<PatternsLearned[2], PatternsLearned[1], PatternsLearned[3]>>

-----------------------------------------------------------------------------
(* C10 *)

C10_FrameStep ==
    /\ call'.op \in {"generator_phase", "reflector_phase",
                     "get_context_playbook", "process_task"}
          => context_playbook' = context_playbook
    /\ context_playbook'.common_pitfalls = context_playbook.common_pitfalls
    /\ context_playbook'.domain_knowledge = context_playbook.domain_knowledge
    /\ IsPrefix(Patterns(context_playbook), Patterns(context_playbook'))

\* C10: the generate phase, the reflect phase and the playbook read leave
\* the playbook unchanged; the curate phase leaves common_pitfalls and
\* domain_knowledge unchanged; over every step successful_patterns before
\* the step is a prefix of successful_patterns after it.
C10_PlaybookOnlyGrows == [][C10_FrameStep]_vars

\* a curate phase has appended the three patterns behind an entry of a
\* supplied playbook whose other two lists are not empty
C10_Witness ==
    /\ CuratorReturned
    /\ Patterns(context_playbook) = <<OtherPattern>> \o PatternsLearned
    /\ context_playbook.common_pitfalls # <<>>
    /\ context_playbook.domain_knowledge # <<>>

====
